---------------------------- MODULE Spec2Model ----------------------------
(***************************************************************************)
(* Model of src/app.py, the Streamlit "AI Travel Planner" script.          *)
(*                                                                         *)
(* One run of the script is a submission of the form: check destination,   *)
(* build_spec, build_chain, chain.invoke, render_itinerary (which calls    *)
(* itinerary_to_markdown), all inside one try/except.                      *)
(*                                                                         *)
(* Python values are tagged records [t, v]: a str is a sequence of chunks  *)
(* (a literal of the source is one chunk, a character of data is one       *)
(* chunk), a list is a sequence of values, a dict is a function from keys  *)
(* to values.  Emoji of the literals are left out of the chunks, the en     *)
(* dash of the Markdown day heading is written "-", and the data of the    *)
(* JSON download button (json.dumps(plan)) is not part of the model.       *)
(***************************************************************************)
EXTENDS Integers, Sequences, FiniteSets, TLC

\* ------------------------------------------------------------------ bounds
\* Longest raw text typed into a form field.
MaxLen == 2
\* Largest daily budget typed into the number input.
MaxBudget == 2
\* Longest daily_plan list of the numbered-days slice of the plans.
MaxDays == 2

\* ------------------------------------------------------------ Python values
None == [t |-> "none", v |-> 0]
Str(s) == [t |-> "str", v |-> s]
Num(n) == [t |-> "num", v |-> n]
List(l) == [t |-> "list", v |-> l]
Dict(d) == [t |-> "dict", v |-> d]

\* bool(x)
Truthy(x) ==
    CASE x.t = "none" -> FALSE
      [] x.t = "str" -> x.v # <<>>
      [] x.t = "num" -> x.v # 0
      [] x.t = "list" -> x.v # <<>>
      [] x.t = "dict" -> DOMAIN x.v # {}

\* isinstance(x, str), isinstance(x, list), isinstance(x, dict)
IsStr(x) == x.t = "str"
IsList(x) == x.t = "list"
IsDict(x) == x.t = "dict"

\* d.get(k) and d.get(k, dflt) on the function d of a dict
Get(d, k) == IF k \in DOMAIN d THEN d[k] ELSE None
GetOr(d, k, dflt) == IF k \in DOMAIN d THEN d[k] ELSE dflt

Digit(n) == <<"0", "1", "2", "3", "4", "5", "6", "7", "8", "9">>[n + 1]

RECURSIVE IntToStr(_)
IntToStr(n) == IF n < 10 THEN <<Digit(n)>> ELSE IntToStr(n \div 10) \o <<Digit(n % 10)>>

\* str(x), as an f-string field formats it
ToStr(x) ==
    CASE x.t = "str" -> x.v
      [] x.t = "num" -> IntToStr(x.v)
      [] x.t = "none" -> <<"None">>
      [] OTHER -> <<"<repr>">>

\* for item in x: a str yields its characters, a list its elements
Iter(x) ==
    CASE x.t = "list" -> x.v
      [] x.t = "str" -> [i \in 1..Len(x.v) |-> Str(<<x.v[i]>>)]
      [] OTHER -> <<>>

\* ------------------------------------------------------------------- strip
IsSpace(c) == c \in {" ", "\t", "\n"}

RECURSIVE LStrip(_)
LStrip(s) == IF s # <<>> /\ IsSpace(Head(s)) THEN LStrip(Tail(s)) ELSE s

RECURSIVE RStrip(_)
RStrip(s) == IF s # <<>> /\ IsSpace(s[Len(s)]) THEN RStrip(SubSeq(s, 1, Len(s) - 1)) ELSE s

\* str.strip()
Strip(s) == RStrip(LStrip(s))

\* -------------------------------------------------------------- build_spec
\* (raw or "").strip() or None
OptionalText(raw) == IF Strip(raw) = <<>> THEN None ELSE Str(Strip(raw))

DailyBudgetUsdZeroKept(b) == IF b >= 0 THEN Num(b) ELSE None

\* daily_budget if daily_budget > 0 else None
DailyBudgetUsd(b) == IF b > 0 THEN Num(b) ELSE None

build_spec(f) ==
    [destination |-> Str(f.destination),
     passport_country |-> Str(f.passport_country),
     month_or_season |-> Str(f.month),
     duration_days |-> Num(f.duration_days),
     group |-> Str(f.travel_group),
     budget_band |-> Str(f.budget_band),
     daily_budget_usd |-> DailyBudgetUsd(f.daily_budget),
     accommodation |-> Str(f.accommodation),
     style |-> List(f.style),
     food |-> List(f.food),
     must_include |-> OptionalText(f.must_include),
     avoid |-> OptionalText(f.avoid),
     notes |-> OptionalText(f.notes)]

\* ------------------------------------------------------------- UI elements
\* One call of st.<w>(body); expanded is the expander's argument.
El(w, body) == [w |-> w, body |-> body, expanded |-> FALSE]
Expander(label, expanded) == [w |-> "expander", body |-> label, expanded |-> expanded]

Write(body) == El("write", body)

\* for item in items: st.write(f"{prefix}{item}")
Bullets(items) == [i \in 1..Len(items) |-> Write(<<"- ">> \o ToStr(items[i]))]

\* _render_list(items, prefix="- ")
render_list(items) ==
    IF IsStr(items) THEN <<Write(items.v)>>
    ELSE IF IsList(items) THEN Bullets(items.v)
    ELSE <<>>

\* st.success(plan.get("summary", ""))
RenderSummary(plan) == <<El("success", ToStr(GetOr(plan, "summary", Str(<<>>))))>>

\* if plan.get("visa_and_tips"): expander + _render_list
RenderVisa(plan) ==
    IF Truthy(Get(plan, "visa_and_tips"))
    THEN <<Expander(<<"Visa & Practical Tips">>, TRUE)>> \o render_list(plan["visa_and_tips"])
    ELSE <<>>

\* the isinstance(items, str) / for a in items branches of a day's part and food
RenderItems(items) == IF IsStr(items) THEN <<Write(items.v)>> ELSE Bullets(Iter(items))

\* st.markdown(f"**{label}**") and the items of day.get(key, [])
RenderPart(day, label, key) ==
    <<El("markdown", <<"**", label, "**">>)>> \o RenderItems(GetOr(day, key, List(<<>>)))

\* st.markdown("**Transport Notes**"); st.info(day.get("transport_notes", ""))
RenderTransport(day) ==
    <<El("markdown", <<"**Transport Notes**">>),
      El("info", ToStr(GetOr(day, "transport_notes", Str(<<>>))))>>

RenderCostAlways(day) ==
    <<El("caption", <<"Estimated daily cost: ~$">> \o ToStr(Get(day, "est_cost_usd")))>>

\* if "est_cost_usd" in day: st.caption(...)
RenderCost(day) ==
    IF "est_cost_usd" \in DOMAIN day
    THEN <<El("caption", <<"Estimated daily cost: ~$">> \o ToStr(day["est_cost_usd"]))>>
    ELSE <<>>

\* day.get('day', '?') if isinstance(day, dict) else '?'
DayNum(day) == IF IsDict(day) THEN GetOr(day.v, "day", Str(<<"?">>)) ELSE Str(<<"?">>)

\* day.get('title', '') if isinstance(day, dict) else str(day)
DayTitle(day) == IF IsDict(day) THEN GetOr(day.v, "title", Str(<<>>)) ELSE Str(ToStr(day))

DayExpandedIfNumbered(day_num) == Truthy(day_num) /\ day_num.t = "num"

\* expanded=(day_num == 1)
DayExpanded(day_num) == day_num.t = "num" /\ day_num.v = 1

\* the body of `for day in daily`
RenderDay(day) ==
    <<Expander(<<"Day ">> \o ToStr(DayNum(day)) \o <<": ">> \o ToStr(DayTitle(day)),
               DayExpanded(DayNum(day)))>>
    \o (IF ~IsDict(day)
        THEN <<Write(ToStr(day))>>
        ELSE RenderPart(day.v, "Morning", "morning")
             \o RenderPart(day.v, "Afternoon", "afternoon")
             \o RenderPart(day.v, "Evening", "evening")
             \o RenderPart(day.v, "Food", "food")
             \o RenderTransport(day.v)
             \o RenderCost(day.v))

RECURSIVE RenderDays(_)
RenderDays(days) == IF days = <<>> THEN <<>> ELSE RenderDay(Head(days)) \o RenderDays(Tail(days))

\* daily = plan.get("daily_plan", []) and both branches of isinstance(daily, str)
RenderDaily(plan) ==
    LET daily == GetOr(plan, "daily_plan", List(<<>>))
    IN  IF IsStr(daily)
        THEN <<El("markdown", <<"## Daily Schedule">>), Write(daily.v)>>
        ELSE <<El("markdown", <<"## Daily Schedule">>)>> \o RenderDays(Iter(daily))

RenderTotalAlways(plan) ==
    <<El("subheader", <<"Total Estimated Cost: ~$">> \o ToStr(Get(plan, "total_estimated_cost_usd")))>>

\* total_cost = plan.get("total_estimated_cost_usd"); if total_cost: st.subheader(...)
RenderTotal(plan) ==
    IF Truthy(Get(plan, "total_estimated_cost_usd"))
    THEN <<El("subheader", <<"Total Estimated Cost: ~$">> \o ToStr(plan["total_estimated_cost_usd"]))>>
    ELSE <<>>

\* if plan.get("map_links"): heading, then for url in plan["map_links"]
RenderMapLinks(plan) ==
    IF Truthy(Get(plan, "map_links"))
    THEN <<El("markdown", <<"### Useful Map Links">>)>> \o Bullets(Iter(plan["map_links"]))
    ELSE <<>>

\* if plan.get("packing_or_seasonal_tips"): heading, then for t in plan[...]
RenderPacking(plan) ==
    IF Truthy(Get(plan, "packing_or_seasonal_tips"))
    THEN <<El("markdown", <<"### Packing / Seasonal Tips">>)>>
         \o Bullets(Iter(plan["packing_or_seasonal_tips"]))
    ELSE <<>>

\* ------------------------------------------------- itinerary_to_markdown
\* A line is a str; "" is <<>>.
MdBullets(items) == [i \in 1..Len(items) |-> <<"- ">> \o ToStr(items[i])]

MdTitle == <<"# AI Travel Planner Itinerary\n">>

MdSummary(plan) ==
    IF Truthy(Get(plan, "summary"))
    THEN << <<"**Summary:** ">> \o ToStr(plan["summary"]) \o <<"\n">> >>
    ELSE <<>>

\* a top-level bullet section: heading, one bullet per element, ""
MdSection(plan, key, heading) ==
    IF Truthy(Get(plan, key))
    THEN << <<heading>> >> \o MdBullets(Iter(plan[key])) \o << <<>> >>
    ELSE <<>>

\* part.capitalize()
Capitalize(part) ==
    CASE part = "morning" -> "Morning"
      [] part = "afternoon" -> "Afternoon"
      [] part = "evening" -> "Evening"

\* items = d.get(part, []); if items: heading and bullets
MdPart(d, part) ==
    IF Truthy(GetOr(d, part, List(<<>>)))
    THEN << <<"**", Capitalize(part), ":**">> >> \o MdBullets(Iter(d[part]))
    ELSE <<>>

\* food = d.get("food", []); if food: heading and bullets
MdFood(d) ==
    IF Truthy(GetOr(d, "food", List(<<>>)))
    THEN << <<"**Food:**">> >> \o MdBullets(Iter(d["food"]))
    ELSE <<>>

MdTransport(d) ==
    IF Truthy(Get(d, "transport_notes"))
    THEN << <<"**Transport Notes:** ">> \o ToStr(d["transport_notes"]) >>
    ELSE <<>>

MdCost(d) ==
    IF "est_cost_usd" \in DOMAIN d
    THEN << <<"_Estimated cost_: $">> \o ToStr(d["est_cost_usd"]) >>
    ELSE <<>>

\* f"### Day {d.get('day')} - {d.get('title','')}"
MdDayHeading(d) ==
    <<"### Day ">> \o ToStr(Get(d, "day")) \o <<" - ">> \o ToStr(GetOr(d, "title", Str(<<>>)))

MdDayBodyFoodFirst(d) ==
    MdFood(d) \o MdPart(d, "morning") \o MdPart(d, "afternoon") \o MdPart(d, "evening")
    \o MdTransport(d) \o MdCost(d)

\* what follows the heading of a day, up to its closing ""
MdDayBody(d) ==
    MdPart(d, "morning") \o MdPart(d, "afternoon") \o MdPart(d, "evening")
    \o MdFood(d) \o MdTransport(d) \o MdCost(d)

MdDay(d) == <<MdDayHeading(d)>> \o MdDayBody(d) \o << <<>> >>

RECURSIVE MdDays(_)
MdDays(days) == IF days = <<>> THEN <<>> ELSE MdDay(Head(days).v) \o MdDays(Tail(days))

\* d.get(...) on an element of plan["daily_plan"] that is no dict raises
\* AttributeError: a character of a str daily_plan, or a str entry of the list.
MdDailyRaises(plan) ==
    /\ Truthy(Get(plan, "daily_plan"))
    /\ \E i \in 1..Len(Iter(plan["daily_plan"])) : ~IsDict(Iter(plan["daily_plan"])[i])

MdDaily(plan) ==
    IF Truthy(Get(plan, "daily_plan"))
    THEN << <<"## Daily Plan">> >> \o MdDays(Iter(plan["daily_plan"]))
    ELSE <<>>

MdTotal(plan) ==
    IF Truthy(Get(plan, "total_estimated_cost_usd"))
    THEN << <<"**Total Estimated Cost**: ~$">> \o ToStr(plan["total_estimated_cost_usd"]) \o <<"\n">> >>
    ELSE <<>>

\* The list `lines` at the return; raised when the function does not return.
itinerary_to_markdown(plan) ==
    IF MdDailyRaises(plan)
    THEN [raised |-> TRUE, lines |-> <<>>]
    ELSE [raised |-> FALSE,
          lines |-> <<MdTitle>>
                    \o MdSummary(plan)
                    \o MdSection(plan, "visa_and_tips", "## Visa & Tips")
                    \o MdDaily(plan)
                    \o MdTotal(plan)
                    \o MdSection(plan, "map_links", "## Map Links")
                    \o MdSection(plan, "packing_or_seasonal_tips", "## Packing / Seasonal Tips")]

\* -------------------------------------------------------- render_itinerary
\* out: the elements written before the function returns or raises; md: the
\* data of the Markdown download button.
render_itinerary(plan) ==
    LET md == itinerary_to_markdown(plan)
        body == RenderSummary(plan) \o RenderVisa(plan) \o RenderDaily(plan)
                \o RenderTotal(plan) \o RenderMapLinks(plan) \o RenderPacking(plan)
                \o <<El("markdown", <<"---">>),
                     El("download_button", <<"Download Itinerary (JSON)">>)>>
    IN  [raised |-> md.raised,
         out |-> IF md.raised THEN body
                 ELSE body \o <<El("download_button", <<"Download Itinerary (Markdown)">>)>>,
         md |-> md.lines]

\* ------------------------------------------------------------ input domains
Chars == {" ", "a"}

\* The raw texts of at most MaxLen characters.
Strs == UNION {[1..n -> Chars] : n \in 0..MaxLen}

\* The raw texts the session draws for the fields other than the destination.
FlowTexts == {<<>>, <<" ", "a">>}

\* The widgets' default values of the fields no claim varies.
FormOf(dest, passport, budget, must, av, nt) ==
    [destination |-> dest, passport_country |-> passport, month |-> <<"Flexible">>,
     duration_days |-> 7, travel_group |-> <<"Solo">>, budget_band |-> <<"Medium">>,
     daily_budget |-> budget, accommodation |-> <<"Budget Hostel">>,
     style |-> <<Str(<<"Cultural">>), Str(<<"Foodie">>)>>,
     food |-> <<Str(<<"Local Food">>), Str(<<"Street Food">>)>>,
     must_include |-> must, avoid |-> av, notes |-> nt]

FlowForms ==
    {FormOf(d, p, b, m, a, n) :
        d \in Strs, p \in FlowTexts, b \in {0, MaxBudget},
        m \in FlowTexts, a \in FlowTexts, n \in FlowTexts}

BuildForms ==
    {FormOf(<<"a">>, p, b, m, a, n) :
        p \in Strs, b \in 0..MaxBudget, m \in Strs, a \in Strs, n \in Strs}

EmptyForm == FormOf(<<>>, <<>>, 0, <<>>, <<>>, <<>>)

Keys == {"", "sk-test"}

\* A key of a dict that may be absent.
Absent == [t |-> "absent", v |-> 0]
NoKeys == [k \in {} |-> None]
Opt(k, x) == IF x.t = "absent" THEN NoKeys ELSE (k :> x)

Hi == <<"h", "i">>
TwoItems == List(<<Str(<<"x">>), Str(<<"y">>)>>)

\* What a sequence-typed field holds: nothing, a scalar string, [] or a list.
SeqOpts == {Absent, Str(Hi), List(<<>>), TwoItems}
SummaryOpts == {Absent, Str(<<>>), Str(<<"S">>)}
CostOpts == {Absent, Num(0), Num(45)}
TransportOpts == {Absent, Str(<<>>), Str(<<"b", "u", "s">>)}

DayOf(day, title, morning, afternoon, evening, food, transport, cost) ==
    Dict(Opt("day", day) @@ Opt("title", title) @@ Opt("morning", morning)
         @@ Opt("afternoon", afternoon) @@ Opt("evening", evening) @@ Opt("food", food)
         @@ Opt("transport_notes", transport) @@ Opt("est_cost_usd", cost))

PlanOf(summary, visa, daily, total, maps, packing) ==
    Opt("summary", summary) @@ Opt("visa_and_tips", visa) @@ Opt("daily_plan", daily)
    @@ Opt("total_estimated_cost_usd", total) @@ Opt("map_links", maps)
    @@ Opt("packing_or_seasonal_tips", packing)

FullDay == DayOf(Num(1), Str(<<"T">>), TwoItems, TwoItems, TwoItems, TwoItems,
                 Str(<<"b", "u", "s">>), Num(45))

\* Plans whose top-level fields vary.
PlansTop ==
    {PlanOf(s, v, d, t, m, p) :
        s \in SummaryOpts, v \in SeqOpts,
        d \in {Absent, Str(Hi), List(<<>>), List(<<FullDay>>)},
        t \in CostOpts, m \in SeqOpts, p \in SeqOpts}

\* Plans of one day whose fields vary.
PlansOneDay ==
    {PlanOf(Str(<<"S">>), Absent,
            List(<<DayOf(Num(1), Str(<<"T">>), mo, af, ev, fo, tr, co)>>),
            Num(45), Absent, Absent) :
        mo \in SeqOpts, af \in SeqOpts, ev \in SeqOpts, fo \in SeqOpts,
        tr \in TransportOpts, co \in CostOpts}

\* The entries of the daily_plan lists whose day numbers vary; one is no dict.
NumberedDays ==
    {DayOf(n, t, mo, Absent, Absent, Absent, Absent, co) :
        n \in {Absent, Num(1), Num(2)}, t \in {Absent, Str(<<"T">>)},
        mo \in {Absent, TwoItems}, co \in {Absent, Num(45)}}
    \cup {Str(<<"x">>)}

PlansNumbered ==
    {PlanOf(Str(<<"S">>), Absent, List(days), Absent, Absent, Absent) :
        days \in UNION {[1..n -> NumberedDays] : n \in 1..MaxDays}}

Plans == PlansTop \cup PlansOneDay \cup PlansNumbered

\* The model's answers a session draws from.
FlowPlans ==
    {NoKeys,
     PlanOf(Str(<<"S">>), TwoItems, List(<<FullDay>>), Num(45), TwoItems, TwoItems),
     PlanOf(Str(<<"S">>), Absent, Str(Hi), Absent, Absent, Absent),
     PlanOf(Absent, Absent, List(<<FullDay>>), Absent, Str(Hi), Absent)}

\* What chain.invoke raises: the provider's error, the parser's.
InvokeFailures == {<<"APIConnectionError">>, <<"OutputParserException">>}

\* -------------------------------------------------------------------- state
VARIABLES
    pc,           \* where the run of the script is
    submitted,    \* st.form_submit_button's value in the last run
    form,         \* the form's widgets
    sidebar_key,  \* the sidebar's text_input
    env_key,      \* os.getenv("OPENAI_API_KEY", "")
    api_key,
    spec,
    chain,        \* whether build_chain returned the runnable
    plan,
    ui,           \* the elements this run wrote
    md,           \* the data of the Markdown download button
    exc,          \* the exception the except clause caught
    invocations   \* calls of chain.invoke in this run

vars == <<pc, submitted, form, sidebar_key, env_key, api_key, spec, chain, plan, ui, md,
          exc, invocations>>

\* api_key = st.text_input(...); if not api_key: api_key = os.getenv(...)
ResolveApiKey(sidebar, env) == IF sidebar = "" THEN env ELSE sidebar

\* if not destination.strip()
BlankUnstripped(dest) == dest = <<>>

BlankDestination(dest) == Strip(dest) = <<>>

ChainKeyUnchecked(key) == FALSE

\* if not api_key: raise RuntimeError(...)
ChainKeyMissing(key) == key = ""

ExceptSwallow(u, e) == u

\* except Exception as e: st.error(f"Failed to generate itinerary: {e}")
Except(u, e) == Append(u, El("error", <<"Failed to generate itinerary: ">> \o e))

Init ==
    /\ pc = "idle"
    /\ submitted = FALSE
    /\ form = EmptyForm
    /\ sidebar_key = ""
    /\ env_key \in Keys
    /\ api_key = ResolveApiKey("", env_key)
    /\ spec = None
    /\ chain = FALSE
    /\ plan = None
    /\ ui = <<El("info", <<"Fill the form and click **Generate Itinerary**.">>)>>
    /\ md = <<>>
    /\ exc = None
    /\ invocations = 0

\* A run of the script without the submit button: a sidebar widget changed.
Rerun ==
    /\ pc = "idle"
    /\ \E k \in Keys :
        /\ sidebar_key' = k
        /\ api_key' = ResolveApiKey(k, env_key)
    /\ submitted' = FALSE
    /\ spec' = None /\ chain' = FALSE /\ plan' = None /\ md' = <<>> /\ exc' = None
    /\ invocations' = 0
    /\ ui' = <<El("info", <<"Fill the form and click **Generate Itinerary**.">>)>>
    /\ UNCHANGED <<pc, form, env_key>>

\* The submit button: the script runs again with the form's values.
Submit ==
    /\ pc = "idle"
    /\ \E f \in FlowForms : form' = f
    /\ api_key' = ResolveApiKey(sidebar_key, env_key)
    /\ submitted' = TRUE
    /\ spec' = None /\ chain' = FALSE /\ plan' = None /\ md' = <<>> /\ exc' = None
    /\ invocations' = 0
    /\ ui' = <<>>
    /\ pc' = "submitted"
    /\ UNCHANGED <<sidebar_key, env_key>>

\* if not destination.strip(): st.error("Please enter a destination.")
CheckDestination ==
    /\ pc = "submitted"
    /\ IF BlankDestination(form.destination)
       THEN /\ ui' = Append(ui, El("error", <<"Please enter a destination.">>))
            /\ pc' = "idle"
       ELSE /\ ui' = ui
            /\ pc' = "build_spec"
    /\ UNCHANGED <<submitted, form, sidebar_key, env_key, api_key, spec, chain, plan, md,
                   exc, invocations>>

\* spec = build_spec(); spec_json = json.dumps(spec, ...)
BuildSpec ==
    /\ pc = "build_spec"
    /\ spec' = Dict(build_spec(form))
    /\ pc' = "build_chain"
    /\ UNCHANGED <<submitted, form, sidebar_key, env_key, api_key, chain, plan, ui, md,
                   exc, invocations>>

\* chain = build_chain(api_key, model_name, temperature)
BuildChain ==
    /\ pc = "build_chain"
    /\ IF ChainKeyMissing(api_key)
       THEN /\ exc' = Str(<<"Missing API key. Add it in the sidebar or set OPENAI_API_KEY.">>)
            /\ ui' = Except(ui, exc'.v)
            /\ chain' = FALSE
            /\ pc' = "idle"
       ELSE /\ chain' = TRUE
            /\ pc' = "invoke"
            /\ UNCHANGED <<ui, exc>>
    /\ UNCHANGED <<submitted, form, sidebar_key, env_key, api_key, spec, plan, md,
                   invocations>>

\* plan = chain.invoke({...}) returns the parsed dict
InvokeReturns ==
    /\ pc = "invoke"
    /\ invocations' = invocations + 1
    /\ \E p \in FlowPlans : plan' = Dict(p)
    /\ pc' = "render"
    /\ UNCHANGED <<submitted, form, sidebar_key, env_key, api_key, spec, chain, ui, md, exc>>

\* plan = chain.invoke({...}) raises
InvokeRaises ==
    /\ pc = "invoke"
    /\ invocations' = invocations + 1
    /\ \E e \in InvokeFailures : exc' = Str(e)
    /\ ui' = Except(ui, exc'.v)
    /\ pc' = "idle"
    /\ UNCHANGED <<submitted, form, sidebar_key, env_key, api_key, spec, chain, plan, md>>

\* render_itinerary(plan)
Render ==
    /\ pc = "render"
    /\ LET r == render_itinerary(plan.v)
       IN  /\ md' = r.md
           /\ IF r.raised
              THEN /\ exc' = Str(<<"'str' object has no attribute 'get'">>)
                   /\ ui' = Except(ui \o r.out, exc'.v)
              ELSE /\ exc' = exc
                   /\ ui' = ui \o r.out
    /\ pc' = "idle"
    /\ UNCHANGED <<submitted, form, sidebar_key, env_key, api_key, spec, chain, plan,
                   invocations>>

Next ==
    \/ Rerun
    \/ Submit
    \/ CheckDestination
    \/ BuildSpec
    \/ BuildChain
    \/ InvokeReturns
    \/ InvokeRaises
    \/ Render

\* The session.
Spec == Init /\ [][Next]_vars

\* The run at `spec = build_spec()`, over every raw text of the bounds.
InitBuild ==
    /\ pc = "build_spec"
    /\ submitted = TRUE
    /\ form \in BuildForms
    /\ sidebar_key = ""
    /\ env_key = "sk-test"
    /\ api_key = ResolveApiKey(sidebar_key, env_key)
    /\ spec = None
    /\ chain = FALSE
    /\ plan = None
    /\ ui = <<>>
    /\ md = <<>>
    /\ exc = None
    /\ invocations = 0

NextBuild == BuildSpec

SpecBuild == InitBuild /\ [][NextBuild]_vars

\* The run at `render_itinerary(plan)`, over every plan of the bounds.
InitRender ==
    /\ pc = "render"
    /\ submitted = TRUE
    /\ form = FormOf(<<"a">>, <<>>, 0, <<>>, <<>>, <<>>)
    /\ sidebar_key = ""
    /\ env_key = "sk-test"
    /\ api_key = ResolveApiKey(sidebar_key, env_key)
    /\ spec = Dict(build_spec(form))
    /\ chain = TRUE
    /\ plan \in {Dict(p) : p \in Plans}
    /\ ui = <<>>
    /\ md = <<>>
    /\ exc = None
    /\ invocations = 1

NextRender == Render

SpecRender == InitRender /\ [][NextRender]_vars

\* ------------------------------------------------------- session properties
\* A raw text that is empty or holds whitespace only.
OnlyWhitespace(s) == \A i \in 1..Len(s) : s[i] \in {" ", "\t", "\n"}

NumErrors(u) == Cardinality({i \in 1..Len(u) : u[i].w = "error"})

MissingDestinationError == El("error", <<"Please enter a destination.">>)

\* C1: a submission whose destination is empty or whitespace-only builds no
\* TripSpec and no chain, never invokes the model, and ends with the
\* missing-destination error as its only output, whatever the other fields
\* and the API key are.
C1_BlankDestinationOnlyError ==
    (submitted /\ OnlyWhitespace(form.destination)) =>
        /\ pc \in {"submitted", "idle"}
        /\ spec = None
        /\ chain = FALSE
        /\ plan = None
        /\ invocations = 0
        /\ exc = None
        /\ pc = "idle" => ui = <<MissingDestinationError>>

C1_Witness ==
    /\ pc = "idle"
    /\ submitted
    /\ form.destination = <<" ", " ">>
    /\ form.notes # <<>>
    /\ api_key # ""
    /\ ui = <<MissingDestinationError>>

\* C4: in a submission with a non-blank destination the model is invoked at
\* most once, and a failure of any step is caught: the run ends idle with
\* exactly one error message, the last element written, and the form can be
\* submitted again.
C4_FailureCaughtOnce ==
    (submitted /\ ~OnlyWhitespace(form.destination)) =>
        /\ invocations <= 1
        /\ exc # None =>
            /\ pc = "idle"
            /\ NumErrors(ui) = 1
            /\ ui[Len(ui)].w = "error"
            /\ ENABLED Submit

C4_Witness ==
    /\ pc = "idle"
    /\ submitted
    /\ ~OnlyWhitespace(form.destination)
    /\ plan # None
    /\ exc # None
    /\ invocations = 1
    /\ Len(ui) > 1

\* C5: with no API key in the sidebar input and none in OPENAI_API_KEY,
\* build_chain raises the missing-key error before any request: the chain is
\* not built and the model is never invoked in that submission.
C5_NoKeyNoInvocation ==
    (submitted /\ sidebar_key = "" /\ env_key = "") =>
        /\ pc \notin {"invoke", "render"}
        /\ chain = FALSE
        /\ invocations = 0
        /\ plan = None
        /\ (pc = "idle" /\ ~OnlyWhitespace(form.destination)) =>
            /\ exc = Str(<<"Missing API key. Add it in the sidebar or set OPENAI_API_KEY.">>)
            /\ NumErrors(ui) = 1

C5_Witness ==
    /\ pc = "idle"
    /\ submitted
    /\ sidebar_key = ""
    /\ env_key = ""
    /\ ~OnlyWhitespace(form.destination)
    /\ spec # None
    /\ exc # None

\* --------------------------------------------------- build_spec properties
OptionalTextKeys == {"passport_country", "must_include", "avoid", "notes"}

\* C6: in the TripSpec every optional string field (passport country,
\* must_include, avoid, notes) is trimmed, and is None whenever the raw input
\* is empty or whitespace-only.
C6_OptionalTextTrimmedOrNone ==
    pc = "build_chain" =>
        \A k \in OptionalTextKeys :
            /\ OnlyWhitespace(form[k]) => spec.v[k].t = "none"
            /\ spec.v[k].t = "str" =>
                /\ spec.v[k].v # <<>>
                /\ ~OnlyWhitespace(<<Head(spec.v[k].v)>>)
                /\ ~OnlyWhitespace(<<spec.v[k].v[Len(spec.v[k].v)]>>)

\* C7: daily_budget_usd is None when the raw daily budget is <= 0 and is the
\* raw value itself when it is > 0.
C7_DailyBudgetSentinel ==
    pc = "build_chain" =>
        /\ form.daily_budget <= 0 => spec.v.daily_budget_usd = None
        /\ form.daily_budget > 0 => spec.v.daily_budget_usd = Num(form.daily_budget)

C7_Witness ==
    /\ pc = "build_chain"
    /\ form.daily_budget = 0
    /\ spec.v.daily_budget_usd = None
    /\ spec.v.notes # None

\* ----------------------------------------------------- rendering properties
\* The run of render_itinerary(plan) is over.
Rendered == pc = "idle" /\ plan # None

HasEl(u, w, body) == \E i \in 1..Len(u) : u[i].w = w /\ u[i].body = body

CountW(u, w) == Cardinality({i \in 1..Len(u) : u[i].w = w})

CountEl(u, w, body) == Cardinality({i \in 1..Len(u) : u[i].w = w /\ u[i].body = body})

\* The entries of daily_plan when it is a list.
DaysOf(p) == IF "daily_plan" \in DOMAIN p /\ IsList(p["daily_plan"]) THEN p["daily_plan"].v ELSE <<>>

DictDays(p) == {i \in 1..Len(DaysOf(p)) : IsDict(DaysOf(p)[i])}

\* The expanders of the days, in the order written.
DayExpanders(u) == SelectSeq(u, LAMBDA e : e.w = "expander" /\ Head(e.body) = "Day ")

TopSeqKeys == {"visa_and_tips", "daily_plan", "map_links", "packing_or_seasonal_tips"}
DaySeqKeys == {"morning", "afternoon", "evening", "food"}

\* The scalar strings held by sequence-typed fields of the plan and its days.
ScalarFields(p) ==
    {p[k].v : k \in {k2 \in TopSeqKeys \cap DOMAIN p : IsStr(p[k2]) /\ p[k2].v # <<>>}}
    \cup UNION {{DaysOf(p)[i].v[k].v :
                   k \in {k2 \in DaySeqKeys \cap DOMAIN DaysOf(p)[i].v :
                            IsStr(DaysOf(p)[i].v[k2]) /\ DaysOf(p)[i].v[k2].v # <<>>}} :
                i \in DictDays(p)}

\* A bullet made of one character of the scalar string s.
CharBullets(s) == {<<"- ", s[i]>> : i \in 1..Len(s)}

\* C2: when a sequence-typed field of the plan or of a day holds a scalar
\* string, render_itinerary and the Markdown export complete without raising
\* and the string comes out as one block, never one bullet per character.
C2_ScalarStringAsOneBlock ==
    Rendered =>
        \A s \in ScalarFields(plan.v) :
            /\ exc = None
            /\ HasEl(ui, "write", s)
            /\ \A b \in CharBullets(s) : ~HasEl(ui, "write", b)
            /\ \A i \in 1..Len(md) : md[i] \notin CharBullets(s)

\* C8: a plan without the key total_estimated_cost_usd gets no total-cost
\* subheader in the view and no total-cost line in the Markdown.
C8_NoTotalKeyNoTotalSection ==
    (Rendered /\ "total_estimated_cost_usd" \notin DOMAIN plan.v) =>
        /\ CountW(ui, "subheader") = 0
        /\ \A i \in 1..Len(ui) : "Total Estimated Cost: ~$" \notin {ui[i].body[j] : j \in 1..Len(ui[i].body)}
        /\ \A i \in 1..Len(md) : "**Total Estimated Cost**: ~$" \notin {md[i][j] : j \in 1..Len(md[i])}

C8_Witness ==
    /\ Rendered
    /\ "total_estimated_cost_usd" \notin DOMAIN plan.v
    /\ exc = None
    /\ Len(DaysOf(plan.v)) > 0
    /\ "map_links" \in DOMAIN plan.v
    /\ Len(md) > 1

\* C9, as claimed: render_itinerary writes nothing for a field that is
\* absent: no heading, no empty box, no placeholder.
C9_AbsentFieldNothingEmitted ==
    Rendered =>
        /\ "summary" \notin DOMAIN plan.v => CountW(ui, "success") = 0
        /\ "daily_plan" \notin DOMAIN plan.v => ~HasEl(ui, "markdown", <<"## Daily Schedule">>)
        /\ "visa_and_tips" \notin DOMAIN plan.v => ~HasEl(ui, "expander", <<"Visa & Practical Tips">>)
        /\ "total_estimated_cost_usd" \notin DOMAIN plan.v => CountW(ui, "subheader") = 0
        /\ "map_links" \notin DOMAIN plan.v => ~HasEl(ui, "markdown", <<"### Useful Map Links">>)
        /\ "packing_or_seasonal_tips" \notin DOMAIN plan.v =>
                ~HasEl(ui, "markdown", <<"### Packing / Seasonal Tips">>)
        /\ \A i \in DictDays(plan.v) :
            LET d == DaysOf(plan.v)[i].v
                e == DayExpanders(ui)[i]
            IN  /\ "day" \notin DOMAIN d => "?" \notin {e.body[j] : j \in 1..Len(e.body)}
        /\ CountEl(ui, "markdown", <<"**", "Morning", "**">>)
             = Cardinality({i \in DictDays(plan.v) : "morning" \in DOMAIN DaysOf(plan.v)[i].v})
        /\ CountEl(ui, "markdown", <<"**", "Afternoon", "**">>)
             = Cardinality({i \in DictDays(plan.v) : "afternoon" \in DOMAIN DaysOf(plan.v)[i].v})
        /\ CountEl(ui, "markdown", <<"**", "Evening", "**">>)
             = Cardinality({i \in DictDays(plan.v) : "evening" \in DOMAIN DaysOf(plan.v)[i].v})
        /\ CountEl(ui, "markdown", <<"**", "Food", "**">>)
             = Cardinality({i \in DictDays(plan.v) : "food" \in DOMAIN DaysOf(plan.v)[i].v})
        /\ CountW(ui, "info")
             = Cardinality({i \in DictDays(plan.v) : "transport_notes" \in DOMAIN DaysOf(plan.v)[i].v})
        /\ CountW(ui, "caption")
             = Cardinality({i \in DictDays(plan.v) : "est_cost_usd" \in DOMAIN DaysOf(plan.v)[i].v})

\* C9, amended: nothing is written for an absent visa_and_tips,
\* total_estimated_cost_usd, map_links or packing_or_seasonal_tips, and no
\* cost caption for a day without est_cost_usd.  The other absent fields are
\* not omitted: an absent summary gives an empty success box, an absent
\* daily_plan the Daily Schedule heading with no day, an absent day number
\* the label "Day ?", an absent title an empty title, and every day that is
\* a dict gets the Morning, Afternoon, Evening, Food and Transport Notes
\* labels and an info box (empty without transport_notes) whether or not it
\* has the fields.
C9_AbsentFieldsAsRendered ==
    Rendered =>
        /\ "visa_and_tips" \notin DOMAIN plan.v => ~HasEl(ui, "expander", <<"Visa & Practical Tips">>)
        /\ "total_estimated_cost_usd" \notin DOMAIN plan.v => CountW(ui, "subheader") = 0
        /\ "map_links" \notin DOMAIN plan.v => ~HasEl(ui, "markdown", <<"### Useful Map Links">>)
        /\ "packing_or_seasonal_tips" \notin DOMAIN plan.v =>
                ~HasEl(ui, "markdown", <<"### Packing / Seasonal Tips">>)
        /\ CountW(ui, "caption")
             = Cardinality({i \in DictDays(plan.v) : "est_cost_usd" \in DOMAIN DaysOf(plan.v)[i].v})
        /\ CountW(ui, "success") = 1
        /\ "summary" \notin DOMAIN plan.v => ui[1] = El("success", <<>>)
        /\ CountEl(ui, "markdown", <<"## Daily Schedule">>) = 1
        /\ "daily_plan" \notin DOMAIN plan.v => Len(DayExpanders(ui)) = 0
        /\ Len(DayExpanders(ui)) = Len(DaysOf(plan.v))
        /\ \A i \in DictDays(plan.v) :
            LET d == DaysOf(plan.v)[i].v
                e == DayExpanders(ui)[i]
            IN  /\ "day" \notin DOMAIN d => SubSeq(e.body, 1, 3) = <<"Day ", "?", ": ">>
                /\ ("day" \in DOMAIN d /\ "title" \notin DOMAIN d) => e.body[Len(e.body)] = ": "
        /\ \A label \in {"Morning", "Afternoon", "Evening", "Food"} :
            CountEl(ui, "markdown", <<"**", label, "**">>) = Cardinality(DictDays(plan.v))
        /\ CountEl(ui, "markdown", <<"**Transport Notes**">>) = Cardinality(DictDays(plan.v))
        /\ CountW(ui, "info") = Cardinality(DictDays(plan.v))
        /\ CountEl(ui, "info", <<>>)
             >= Cardinality({i \in DictDays(plan.v) : "transport_notes" \notin DOMAIN DaysOf(plan.v)[i].v})

C9_Witness ==
    /\ Rendered
    /\ DOMAIN plan.v = {"summary", "daily_plan"}
    /\ Len(DaysOf(plan.v)) = 1
    /\ DictDays(plan.v) = {1}
    /\ DOMAIN DaysOf(plan.v)[1].v = {}
    /\ exc = None

\* The entries of daily_plan whose day number is 1.
NumberedOne(p) == {i \in DictDays(p) : Get(DaysOf(p)[i].v, "day") = Num(1)}

ExpandedDays(u) == {i \in 1..Len(DayExpanders(u)) : DayExpanders(u)[i].expanded}

\* C10, as claimed: of a non-empty daily_plan list that render_itinerary
\* renders to the end, exactly one day starts expanded: the entry numbered 1,
\* or the first entry when no entry is.
C10_ExactlyOneDayExpanded ==
    (Rendered /\ exc = None /\ Len(DaysOf(plan.v)) > 0) =>
        /\ Cardinality(ExpandedDays(ui)) = 1
        /\ IF NumberedOne(plan.v) # {}
           THEN ExpandedDays(ui) \subseteq NumberedOne(plan.v)
           ELSE ExpandedDays(ui) = {1}

\* C10, amended: a day of a daily_plan list starts expanded exactly when its
\* day number is 1; the first entry is not expanded for its position, so no
\* day is expanded when none is numbered 1 and several are when several are.
C10_ExpandedIffNumberedOne ==
    (Rendered /\ Len(DaysOf(plan.v)) > 0) =>
        /\ Len(DayExpanders(ui)) = Len(DaysOf(plan.v))
        /\ ExpandedDays(ui) = NumberedOne(plan.v)

C10_Witness ==
    /\ Rendered
    /\ Len(DaysOf(plan.v)) = 2
    /\ DictDays(plan.v) = {1, 2}
    /\ Get(DaysOf(plan.v)[1].v, "day") = Num(2)
    /\ Get(DaysOf(plan.v)[2].v, "day") = Num(1)
    /\ ExpandedDays(ui) = {2}

\* ------------------------------------------------------ Markdown properties
\* What a line of the Markdown is: its literal, "blank" for "".
Tag(line) ==
    IF line = <<>> THEN "blank"
    ELSE IF Head(line) = "**" THEN line[2]
    ELSE Head(line)

DayTags == <<"### Day ", "Morning", "Afternoon", "Evening", "**Food:**",
             "**Transport Notes:** ", "_Estimated cost_: $">>

TopTags == <<"# AI Travel Planner Itinerary\n", "**Summary:** ", "## Visa & Tips",
             "## Daily Plan", "### Day ", "**Total Estimated Cost**: ~$", "## Map Links",
             "## Packing / Seasonal Tips">>

IndexIn(seq, x) == CHOOSE i \in 1..Len(seq) : seq[i] = x

IsDayTag(tag) == \E i \in 1..Len(DayTags) : DayTags[i] = tag

\* The place of a line's part in the order of the document.
TopRank(tag) == IF IsDayTag(tag) THEN IndexIn(TopTags, "### Day ") ELSE IndexIn(TopTags, tag)

\* The lines that open a part: neither bullets nor "".
Heads(lines) == SelectSeq(lines, LAMBDA l : Tag(l) \notin {"blank", "- "})

\* The parts written for the k-th day: the day-level heads after its heading.
DaySegment(h, k) ==
    {Tag(h[i]) : i \in {j \in 1..Len(h) :
        /\ IsDayTag(Tag(h[j]))
        /\ Cardinality({m \in 1..j : Tag(h[m]) = "### Day "}) = k}}

HasTag(h, tag) == \E i \in 1..Len(h) : Tag(h[i]) = tag

NumBullets(lines) == Cardinality({i \in 1..Len(lines) : Tag(lines[i]) = "- "})

RECURSIVE SumOver(_, _)
SumOver(f, S) == IF S = {} THEN 0 ELSE LET x == CHOOSE y \in S : TRUE IN f[x] + SumOver(f, S \ {x})

\* The bullets the plan's non-empty sequences call for.
ExpectedBullets(p) ==
    LET top == {k \in {"visa_and_tips", "map_links", "packing_or_seasonal_tips"} \cap DOMAIN p :
                    Truthy(p[k])}
        days == DaysOf(p)
        perDay == [i \in 1..Len(days) |->
                    LET ks == {k \in DaySeqKeys \cap DOMAIN days[i].v : Truthy(days[i].v[k])}
                    IN  SumOver([k \in ks |-> Len(Iter(days[i].v[k]))], ks)]
    IN  SumOver([k \in top |-> Len(Iter(p[k]))], top) + SumOver(perDay, 1..Len(days))

\* C3: the Markdown has its parts in the fixed order title, summary, visa
\* and tips, the days (each: heading, Morning, Afternoon, Evening, Food,
\* Transport Notes, estimated cost), total cost, map links, packing tips; a
\* part of a day is there only when the day has it (cost: the key; the
\* others: a non-empty value), and a top-level section without data has no
\* heading and no line.
C3_MarkdownOrder ==
    (Rendered /\ exc = None) =>
        LET p == plan.v
            h == Heads(md)
        IN  /\ Tag(md[1]) = TopTags[1]
            /\ \A i \in 1..Len(h) :
                IsDayTag(Tag(h[i])) \/ \E r \in 1..Len(TopTags) : TopTags[r] = Tag(h[i])
            /\ \A i, j \in 1..Len(h) :
                i < j =>
                    /\ TopRank(Tag(h[i])) <= TopRank(Tag(h[j]))
                    /\ ~IsDayTag(Tag(h[i])) => TopRank(Tag(h[i])) < TopRank(Tag(h[j]))
            /\ \A i \in 1..(Len(h) - 1) :
                (IsDayTag(Tag(h[i])) /\ IsDayTag(Tag(h[i + 1]))) =>
                    \/ Tag(h[i + 1]) = "### Day "
                    \/ IndexIn(DayTags, Tag(h[i])) < IndexIn(DayTags, Tag(h[i + 1]))
            /\ HasTag(h, "**Summary:** ") <=> Truthy(Get(p, "summary"))
            /\ HasTag(h, "## Visa & Tips") <=> Truthy(Get(p, "visa_and_tips"))
            /\ HasTag(h, "## Daily Plan") <=> Truthy(Get(p, "daily_plan"))
            /\ HasTag(h, "**Total Estimated Cost**: ~$") <=> Truthy(Get(p, "total_estimated_cost_usd"))
            /\ HasTag(h, "## Map Links") <=> Truthy(Get(p, "map_links"))
            /\ HasTag(h, "## Packing / Seasonal Tips") <=> Truthy(Get(p, "packing_or_seasonal_tips"))
            /\ Cardinality({i \in 1..Len(h) : Tag(h[i]) = "### Day "}) = Len(DaysOf(p))
            /\ \A k \in 1..Len(DaysOf(p)) :
                LET d == DaysOf(p)[k].v
                    seg == DaySegment(h, k)
                IN  /\ "Morning" \in seg <=> Truthy(Get(d, "morning"))
                    /\ "Afternoon" \in seg <=> Truthy(Get(d, "afternoon"))
                    /\ "Evening" \in seg <=> Truthy(Get(d, "evening"))
                    /\ "**Food:**" \in seg <=> Truthy(Get(d, "food"))
                    /\ "**Transport Notes:** " \in seg <=> Truthy(Get(d, "transport_notes"))
                    /\ "_Estimated cost_: $" \in seg <=> "est_cost_usd" \in DOMAIN d
            /\ NumBullets(md) = ExpectedBullets(p)

C3_Witness ==
    /\ Rendered
    /\ exc = None
    /\ \A i \in 1..Len(TopTags) : HasTag(md, TopTags[i])
    /\ \A i \in 1..Len(DayTags) : HasTag(md, DayTags[i])

=============================================================================
